---- MODULE Spec2Model ----
(***************************************************************************)
(* Model of the Privacyx Balance Pass frontend (src/src/App.jsx): the      *)
(* React state of App, the async handlers connectWallet and                *)
(* handleProveAndConsume (one action per synchronous segment between two   *)
(* awaits), the two effects that depend on signer (loadContractState and   *)
(* the AccessGranted subscription) and the render expressions the claims   *)
(* read.                                                                   *)
(*                                                                         *)
(* Conventions.  A JS string is a sequence of chunks (TLA+ strings);       *)
(* numeric strings are sequences of one-character chunks so that BigInt()  *)
(* and toString() are computed digit by digit.  A nullable JS value is     *)
(* NULL (the empty tuple) or Some(v) (the one-element tuple).              *)
(***************************************************************************)
EXTENDS Integers, Sequences, FiniteSets

NULL == <<>>
Some(v) == <<v>>
Val(x) == x[1]

(***************************************************************************)
(* Bounds of the model.                                                    *)
(***************************************************************************)
\* length of the sequence of AccessGranted deliveries of a session
MaxDeliveries == 6
\* length of a providers array in the shapes of window.ethereum
MaxProviders == 2

(***************************************************************************)
(* Number <-> string conversions (BigInt(x), x.toString(), `${x}`).        *)
(***************************************************************************)
HexDigits == <<"0", "1", "2", "3", "4", "5", "6", "7", "8", "9",
               "a", "b", "c", "d", "e", "f">>

DigitVal(c) == (CHOOSE i \in 1..16 : HexDigits[i] = c) - 1

RECURSIVE ToBase(_, _)
ToBase(n, base) ==
  IF n < base THEN <<HexDigits[n + 1]>>
  ELSE ToBase(n \div base, base) \o <<HexDigits[(n % base) + 1]>>

\* BigInt.prototype.toString() and template-literal interpolation of a number
ToDecimal(n) == ToBase(n, 10)

\* the 0x-prefixed quantity the wallet answers eth_chainId with
ToHex(n) == <<"0", "x">> \o ToBase(n, 16)

RECURSIVE ParseBase(_, _)
ParseBase(s, base) ==
  IF s = <<>> THEN 0
  ELSE ParseBase(SubSeq(s, 1, Len(s) - 1), base) * base + DigitVal(s[Len(s)])

IsHexLiteral(s) == Len(s) > 2 /\ s[1] = "0" /\ s[2] = "x"

\* BigInt(x) for a decimal or 0x-prefixed string
BigInt(s) ==
  IF IsHexLiteral(s) THEN ParseBase(SubSeq(s, 3, Len(s)), 16)
  ELSE ParseBase(s, 10)

\* the strings BigInt(x) converts; on any other string it throws a SyntaxError
IsBigIntLiteral(s) ==
  IF IsHexLiteral(s)
  THEN \A k \in 3..Len(s) : \E i \in 1..16 : HexDigits[i] = s[k]
  ELSE \A k \in 1..Len(s) : \E i \in 1..10 : HexDigits[i] = s[k]

\* import.meta.env.VITE_CHAIN_ID; the empty string when unset
VITE_CHAIN_ID == <<>>

EXPECTED_CHAIN_ID == BigInt(IF VITE_CHAIN_ID # <<>> THEN VITE_CHAIN_ID ELSE <<"1">>)

(***************************************************************************)
(* Wallet discovery.  window.ethereum is NULL (absent) or Some(object);    *)
(* an object is [isMetaMask, providers] with providers NULL (no array) or  *)
(* Some(array); an array entry is NULL or Some([isMetaMask, providers,     *)
(* providerMap]); the entries of a nested providers array and the values   *)
(* of a providerMap are NULL or Some([isMetaMask]).  Objects are told      *)
(* apart by where they sit: EthPath is window.ethereum itself.             *)
(***************************************************************************)
EthPath == [kind |-> "eth", i |-> 0, j |-> 0]
EntryPath(i) == [kind |-> "providers", i |-> i, j |-> 0]
NestedPath(i, j) == [kind |-> "providers.providers", i |-> i, j |-> j]
MapPath(i, j) == [kind |-> "providers.providerMap", i |-> i, j |-> j]

\* the object found at a path of window.ethereum
ObjectAt(eth, path) ==
  CASE path.kind = "eth" -> eth
    [] path.kind = "providers" -> Val(Val(eth.providers)[path.i])
    [] path.kind = "providers.providers" ->
         Val(Val(Val(Val(eth.providers)[path.i]).providers)[path.j])
    [] OTHER -> Val(Val(Val(Val(eth.providers)[path.i]).providerMap)[path.j])

\* the non-null members of an inner array, in order, as paths
RECURSIVE InnerCandidates(_, _, _, _)
InnerCandidates(arr, i, j, kind) ==
  IF j > Len(arr) THEN <<>>
  ELSE (IF arr[j] # NULL THEN <<[kind |-> kind, i |-> i, j |-> j]>> ELSE <<>>)
       \o InnerCandidates(arr, i, j + 1, kind)

\* the body of eth.providers.forEach for entry p at index i: the candidates
\* it adds, or thrown when p.providers is read off a null p
ForEachBody(p, i) ==
  IF p = NULL THEN [thrown |-> TRUE, added |-> <<>>]
  ELSE [thrown |-> FALSE,
        added |-> <<EntryPath(i)>>
          \o (IF Val(p).providers # NULL
              THEN InnerCandidates(Val(Val(p).providers), i, 1, "providers.providers")
              ELSE <<>>)
          \o (IF Val(p).providerMap # NULL
              THEN InnerCandidates(Val(Val(p).providerMap), i, 1, "providers.providerMap")
              ELSE <<>>)]

RECURSIVE ForEachProviders(_, _)
ForEachProviders(arr, i) ==
  IF i > Len(arr) THEN [thrown |-> FALSE, added |-> <<>>]
  ELSE LET here == ForEachBody(arr[i], i)
           rest == ForEachProviders(arr, i + 1)
       IN  IF here.thrown THEN here
           ELSE [thrown |-> rest.thrown, added |-> here.added \o rest.added]

\* Array.prototype.find
RECURSIVE Find(_, _, _)
Find(eth, all, k) ==
  IF k > Len(all) THEN NULL
  ELSE IF ObjectAt(eth, all[k]).isMetaMask THEN Some(all[k])
  ELSE Find(eth, all, k + 1)

ProviderResult(kind, path) == [kind |-> kind, path |-> path]

\* getEthereumProvider(): "null", "throw" (a TypeError), or the provider chosen
getEthereumProvider(we) ==
  IF we = NULL THEN ProviderResult("null", EthPath)
  ELSE LET eth == Val(we)
           walk == IF eth.providers # NULL
                   THEN ForEachProviders(Val(eth.providers), 1)
                   ELSE [thrown |-> FALSE, added |-> <<>>]
           all == <<EthPath>> \o walk.added
           metamask == Find(eth, all, 1)
       IN  IF walk.thrown THEN ProviderResult("throw", EthPath)
           ELSE IF metamask # NULL THEN ProviderResult("provider", Val(metamask))
           ELSE ProviderResult("provider", EthPath)

\* every object the discovery is meant to consider, null entries skipped
AllCandidates(eth) ==
  {EthPath}
  \cup (IF eth.providers = NULL THEN {}
        ELSE LET arr == Val(eth.providers) IN
          {EntryPath(i) : i \in {k \in 1..Len(arr) : arr[k] # NULL}}
          \cup UNION {IF Val(arr[i]).providers = NULL THEN {}
                      ELSE {NestedPath(i, j) :
                              j \in {k \in 1..Len(Val(Val(arr[i]).providers)) :
                                       Val(Val(arr[i]).providers)[k] # NULL}} :
                      i \in {k \in 1..Len(arr) : arr[k] # NULL}}
          \cup UNION {IF Val(arr[i]).providerMap = NULL THEN {}
                      ELSE {MapPath(i, j) :
                              j \in {k \in 1..Len(Val(Val(arr[i]).providerMap)) :
                                       Val(Val(arr[i]).providerMap)[k] # NULL}} :
                      i \in {k \in 1..Len(arr) : arr[k] # NULL}})

(***************************************************************************)
(* The shapes of window.ethereum the discovery is exercised on.            *)
(***************************************************************************)
SeqsUpTo(S, n) == UNION {[1..k -> S] : k \in 0..n}

LeafShapes == {NULL} \cup {Some([isMetaMask |-> m]) : m \in BOOLEAN}

InnerShapes == {NULL} \cup {Some(a) : a \in SeqsUpTo(LeafShapes, 1)}

EntryShapes ==
  {NULL} \cup {Some([isMetaMask |-> m, providers |-> ps, providerMap |-> pm]) :
                 m \in BOOLEAN, ps \in InnerShapes, pm \in InnerShapes}

EthereumShapes ==
  {NULL} \cup {Some([isMetaMask |-> m, providers |-> ps]) :
                 m \in BOOLEAN,
                 ps \in {NULL} \cup {Some(a) : a \in SeqsUpTo(EntryShapes, MaxProviders)}}

(***************************************************************************)
(* Errors.  A thrown value is [name, reason, shortMessage, message]; an    *)
(* absent field is the empty string.                                       *)
(***************************************************************************)
NewError(message) ==
  [name |-> <<"Error">>, reason |-> <<>>, shortMessage |-> <<>>, message |-> message]

NewTypeError(message) ==
  [name |-> <<"TypeError">>, reason |-> <<>>, shortMessage |-> <<>>, message |-> message]

\* String(e) of an Error object: the name alone when the message is empty
StringOf(e) == IF e.message = <<>> THEN e.name ELSE e.name \o <<": ">> \o e.message

\* a || b on strings
OrElse(a, b) == IF a # <<>> THEN a ELSE b

\* String.prototype.includes, on chunks
Includes(s, chunk) == \E k \in 1..Len(s) : s[k] = chunk

NullifierUsed == "Nullifier already used"

\* the catch block of handleProveAndConsume: the message shown for e
Friendly(e) ==
  LET friendly == OrElse(e.reason, OrElse(e.shortMessage, OrElse(e.message, StringOf(e))))
  IN  IF Includes(friendly, NullifierUsed) \/ Includes(StringOf(e), NullifierUsed)
      THEN <<"This ZK pass has already been used. Each proof can only be consumed once.">>
      ELSE friendly

\* the catch blocks of connectWallet and loadContractState
MessageOrString(e) == OrElse(e.message, StringOf(e))

\* what the wallet and the node reject a request with
UserRejected ==
  [name |-> <<"Error">>, reason |-> <<"rejected">>,
   shortMessage |-> <<"user rejected action">>,
   message |-> <<"user rejected action (action=sendTransaction)">>]

AlreadyUsed ==
  [name |-> <<"Error">>, reason |-> <<"BalanceAccess: ", NullifierUsed>>,
   shortMessage |-> <<"execution reverted: ", "BalanceAccess: ", NullifierUsed>>,
   message |-> <<"execution reverted: ", "BalanceAccess: ", NullifierUsed>>]

NetworkDown == NewTypeError(<<"Failed to fetch">>)

\* what Response.json() rejects with when the body is not JSON
JsonSyntaxError ==
  [name |-> <<"SyntaxError">>, reason |-> <<>>, shortMessage |-> <<>>,
   message |-> <<"Unexpected token '<' is not valid JSON">>]

RpcFailure == NewError(<<"could not coalesce error">>)

\* what proveAndConsume and tx.wait reject with
NodeRejections == {UserRejected, AlreadyUsed, RpcFailure}

NullDereference == NewTypeError(<<"Cannot read properties of null (reading 'providers')">>)

(***************************************************************************)
(* Status lines.                                                           *)
(***************************************************************************)
StatusNone == <<>>

StatusWrongNetwork(chainIdBig) ==
  <<"Wrong network: current chainId = ">> \o ToDecimal(chainIdBig)
    \o <<", expected = ">> \o ToDecimal(EXPECTED_CHAIN_ID)

StatusSending == <<"Sending transaction...">>

StatusSent == <<"Transaction sent, waiting for confirmation...">>

StatusGranted(blockNumber) == <<"Access granted! Block #">> \o ToDecimal(blockNumber)

StatusFailed == <<"Proof / transaction failed.">>

(***************************************************************************)
(* The static files of the deployment and the calldata built from them.    *)
(* A file is NULL when the server answers with a non-ok response.          *)
(***************************************************************************)
ProofDecimal ==
  [pi_a |-> <<ToDecimal(11), ToDecimal(12), ToDecimal(1)>>,
   pi_b |-> << <<ToDecimal(21), ToDecimal(22)>>,
               <<ToDecimal(23), ToDecimal(24)>>,
               <<ToDecimal(1), ToDecimal(0)>> >>,
   pi_c |-> <<ToDecimal(31), ToDecimal(32), ToDecimal(1)>>]

ProofHex ==
  [pi_a |-> <<ToHex(41), ToHex(42), ToHex(1)>>,
   pi_b |-> << <<ToHex(51), ToHex(52)>>,
               <<ToHex(53), ToHex(54)>>,
               <<ToHex(1), ToHex(0)>> >>,
   pi_c |-> <<ToHex(61), ToHex(62), ToHex(1)>>]

\* a proof file whose first coordinate is not a number
ProofMalformed == [ProofDecimal EXCEPT !.pi_a[1] = <<"1", "1", "n">>]

\* balance_public.json: a JSON array of strings, or some other JSON value
PublicArray(items) == [isArray |-> TRUE, items |-> items]

PublicObject == [isArray |-> FALSE, items |-> <<>>]

PublicGood == PublicArray(<<ToDecimal(71), ToDecimal(72)>>)

toBig(x) == BigInt(x)

\* pub.map(toBig)
RECURSIVE MapToBig(_)
MapToBig(items) ==
  IF items = <<>> THEN <<>>
  ELSE <<toBig(Head(items))>> \o MapToBig(Tail(items))

\* ArgB forwarding pi_b as it stands in the file
ArgBVerbatim(proof) ==
  << <<toBig(proof.pi_b[1][1]), toBig(proof.pi_b[1][2])>>,
     <<toBig(proof.pi_b[2][1]), toBig(proof.pi_b[2][2])>> >>

\* the b argument: each pair of pi_b with its two coordinates exchanged
ArgB(proof) ==
  << <<toBig(proof.pi_b[1][2]), toBig(proof.pi_b[1][1])>>,
     <<toBig(proof.pi_b[2][2]), toBig(proof.pi_b[2][1])>> >>

\* the arguments handleProveAndConsume builds for proveAndConsume
Calldata(proof, pub) ==
  LET input == MapToBig(pub.items) IN
  [a |-> <<toBig(proof.pi_a[1]), toBig(proof.pi_a[2])>>,
   b |-> ArgB(proof),
   c |-> <<toBig(proof.pi_c[1]), toBig(proof.pi_c[2])>>,
   pubSignals |-> <<input[1], input[2]>>]

\* the strings handed to toBig, in the order a, b, c and input are built
CalldataInputs(proof, pub) ==
  <<proof.pi_a[1], proof.pi_a[2],
    proof.pi_b[1][2], proof.pi_b[1][1], proof.pi_b[2][2], proof.pi_b[2][1],
    proof.pi_c[1], proof.pi_c[2]>> \o pub.items

\* the SyntaxError BigInt(x) throws
ConversionError(x) ==
  [name |-> <<"SyntaxError">>, reason |-> <<>>, shortMessage |-> <<>>,
   message |-> <<"Cannot convert ">> \o x \o <<" to a BigInt">>]

\* what building the calldata throws: the error of the first string toBig
\* cannot convert, NULL when all convert
CalldataError(proof, pub) ==
  LET inputs == CalldataInputs(proof, pub)
      bad == {k \in 1..Len(inputs) : ~IsBigIntLiteral(inputs[k])}
  IN  IF bad = {} THEN NULL
      ELSE Some(ConversionError(inputs[CHOOSE k \in bad : \A l \in bad : k <= l]))

\* the Error thrown when balance_public.json has the wrong shape
PublicShapeError(pub) ==
  NewError(<<"balance_public.json must contain 2 values [root, nullifierHash], got ">>
           \o (IF pub.isArray THEN ToDecimal(Len(pub.items)) ELSE <<"undefined">>))

\* PublicShapeOk that lets longer arrays through
PublicShapeAtLeastTwo(pub) == pub.isArray /\ Len(pub.items) >= 2

PublicShapeOk(pub) == pub.isArray /\ Len(pub.items) = 2

(***************************************************************************)
(* AccessGranted events as the provider delivers them to the listener.     *)
(***************************************************************************)
EventA ==
  [caller |-> "0xa11ce", nullifier |-> "0x01", root |-> 71,
   log |-> [transactionHash |-> "0xe1", blockNumber |-> 100]]

EventB ==
  [caller |-> "0xb0b", nullifier |-> "0x02", root |-> 71,
   log |-> [transactionHash |-> "0xe2", blockNumber |-> 101]]

\* the entry the handler puts in the feed for a delivered event
FeedEntry(caller, nullifier, root, event) ==
  [caller |-> caller, nullifier |-> nullifier, root |-> root,
   txHash |-> event.log.transactionHash, blockNumber |-> event.log.blockNumber]

\* Array.prototype.slice(0, n)
Slice0(s, n) == SubSeq(s, 1, IF Len(s) < n THEN Len(s) ELSE n)

\* PushEvent keeping the oldest five: the new entry goes last
PushEventLast(prev, entry) == Slice0(prev \o <<entry>>, 5)

\* PushEvent of a listener registered twice: two entries per delivery
PushEventTwice(prev, entry) == Slice0(<<entry, entry>> \o prev, 5)

\* the updater passed to setAccessEvents
PushEvent(prev, entry) == Slice0(<<entry>> \o prev, 5)

(***************************************************************************)
(* State.                                                                  *)
(***************************************************************************)
VARIABLES
  \* the deployment and the world around the page
  windowEthereum,          \* window.ethereum
  BALANCE_ACCESS_ADDRESS,  \* import.meta.env.VITE_BALANCE_ACCESS_ADDRESS
  proofFile,               \* /balance_proof.json
  publicFile,              \* /balance_public.json
  contractRoot,            \* what currentRoot() returns
  contractThreshold,       \* what requiredThreshold() returns
  chainEvents,             \* the AccessGranted events the provider may deliver
  rejections,              \* the errors proveAndConsume and tx.wait may reject with
  walletChain,             \* the chain the wallet is on
  lastTx,                  \* the latest proveAndConsume call, as the wallet sees it
  delivered,               \* the events handed to the listener, oldest first
  \* the useState cells of App
  account, provider, signer, chainId, networkOk,
  currentRoot, threshold,
  status, txHash, error, loading,
  accessEvents,
  \* connectWallet in flight: the await it is at, and its locals
  connPc, connEth, connAddr, connChainIdBig,
  \* loadContractState runs in flight: the awaits they are at
  loadPcs,
  \* handleProveAndConsume in flight: the await it is at, and the signer it closed over
  subPc, subSigner

envVars == <<windowEthereum, BALANCE_ACCESS_ADDRESS, proofFile, publicFile,
             contractRoot, contractThreshold, chainEvents, rejections>>

walletState == <<account, provider, signer, chainId, networkOk>>

contractState == <<currentRoot, threshold>>

connVars == <<connPc, connEth, connAddr, connChainIdBig>>

subVars == <<subPc, subSigner>>

feedVars == <<accessEvents, delivered>>

vars == <<envVars, walletChain, lastTx, walletState, contractState,
          status, txHash, error, loading, feedVars, connVars, loadPcs, subVars>>

\* the other chain of the page (ETHERSCAN_BASE knows it): Sepolia
SEPOLIA_CHAIN_ID == 11155111

Chains == {EXPECTED_CHAIN_ID, SEPOLIA_CHAIN_ID}

WalletAccounts == {<<>>, <<"0xa11ce">>}

TxHashes == {"0x7a"}

BlockNumbers == {9, 10}

ContractAddress == "0x8333b589ad3a8a5fce735631e8edf693c6ae0472"

(***************************************************************************)
(* Deployments.                                                            *)
(***************************************************************************)
Env(we, addr, proof, pub, root, thr, evs) ==
  [windowEthereum |-> we, address |-> addr, proofFile |-> proof, publicFile |-> pub,
   contractRoot |-> root, contractThreshold |-> thr, chainEvents |-> evs,
   rejections |-> NodeRejections]

MetaMaskOnly == Some([isMetaMask |-> TRUE, providers |-> NULL])

InitEnv(e) ==
  /\ windowEthereum = e.windowEthereum
  /\ BALANCE_ACCESS_ADDRESS = e.address
  /\ proofFile = e.proofFile
  /\ publicFile = e.publicFile
  /\ contractRoot = e.contractRoot
  /\ contractThreshold = e.contractThreshold
  /\ chainEvents = e.chainEvents
  /\ rejections = e.rejections

\* the state of App after its first render, the wallet on either chain
InitApp ==
  /\ walletChain \in Chains
  /\ lastTx = NULL
  /\ delivered = <<>>
  /\ account = NULL /\ provider = NULL /\ signer = NULL
  /\ chainId = NULL /\ networkOk = FALSE
  /\ currentRoot = NULL /\ threshold = NULL
  /\ status = StatusNone /\ txHash = NULL /\ error = NULL /\ loading = FALSE
  /\ accessEvents = <<>>
  /\ connPc = "idle" /\ connEth = EthPath /\ connAddr = "" /\ connChainIdBig = 0
  /\ loadPcs = {}
  /\ subPc = "idle" /\ subSigner = NULL

(***************************************************************************)
(* connectWallet.                                                          *)
(***************************************************************************)
ConnIdle ==
  /\ connPc' = "idle" /\ connEth' = EthPath /\ connAddr' = "" /\ connChainIdBig' = 0

\* the catch block of connectWallet
ConnectCatch(e) ==
  /\ error' = Some(MessageOrString(e))
  /\ ConnIdle

\* the click on the connect button, up to the first await (one connectWallet
\* is followed at a time: the button is pressed again once the attempt ended)
ConnectWallet ==
  /\ connPc = "idle"
  /\ status' = StatusNone
  /\ LET eth == getEthereumProvider(windowEthereum) IN
       CASE eth.kind = "null" -> error' = NULL /\ ConnIdle
         [] eth.kind = "throw" -> ConnectCatch(NullDereference)
         [] OTHER -> /\ error' = NULL
                     /\ connPc' = "eth_requestAccounts"
                     /\ connEth' = eth.path
                     /\ UNCHANGED <<connAddr, connChainIdBig>>
  /\ UNCHANGED <<envVars, walletChain, lastTx, walletState, contractState,
                 txHash, loading, feedVars, loadPcs, subVars>>

\* RequestAccountsResolved that shows the account as soon as the wallet
\* returned it, before the chain id and the signer are known
RequestAccountsResolvedSetsAccount ==
  /\ connPc = "eth_requestAccounts"
  /\ \E accounts \in WalletAccounts :
       IF Len(accounts) = 0
       THEN /\ ConnectCatch(NewError(<<"No account returned by wallet">>))
            /\ UNCHANGED account
       ELSE /\ connPc' = "eth_chainId"
            /\ connAddr' = accounts[1]
            /\ account' = Some(accounts[1])
            /\ UNCHANGED <<connEth, connChainIdBig, error>>
  /\ UNCHANGED <<envVars, walletChain, lastTx, provider, signer, chainId, networkOk,
                 contractState, status, txHash, loading, feedVars, loadPcs, subVars>>

RequestAccountsResolved ==
  /\ connPc = "eth_requestAccounts"
  /\ \E accounts \in WalletAccounts :
       IF Len(accounts) = 0
       THEN /\ ConnectCatch(NewError(<<"No account returned by wallet">>))
       ELSE /\ connPc' = "eth_chainId"
            /\ connAddr' = accounts[1]
            /\ UNCHANGED <<connEth, connChainIdBig, error>>
  /\ UNCHANGED <<envVars, walletChain, lastTx, walletState, contractState,
                 status, txHash, loading, feedVars, loadPcs, subVars>>

RequestAccountsRejected ==
  /\ connPc = "eth_requestAccounts"
  /\ ConnectCatch(UserRejected)
  /\ UNCHANGED <<envVars, walletChain, lastTx, walletState, contractState,
                 status, txHash, loading, feedVars, loadPcs, subVars>>

ChainIdResolved ==
  /\ connPc = "eth_chainId"
  /\ LET chainIdHex == ToHex(walletChain) IN
       /\ connChainIdBig' = BigInt(chainIdHex)
       /\ connPc' = "getSigner"
  /\ UNCHANGED <<envVars, walletChain, lastTx, walletState, contractState,
                 status, txHash, error, loading, feedVars, loadPcs, subVars,
                 connEth, connAddr>>

ChainIdRejected ==
  /\ connPc = "eth_chainId"
  /\ ConnectCatch(RpcFailure)
  /\ UNCHANGED <<envVars, walletChain, lastTx, walletState, contractState,
                 status, txHash, loading, feedVars, loadPcs, subVars>>

\* NetworkCheck that takes any chain for the expected one
NetworkCheckAnyChain(chainIdBig) == [networkOk |-> TRUE, status |-> StatusNone]

\* the network check that ends a successful connectWallet
NetworkCheck(chainIdBig) ==
  IF chainIdBig = EXPECTED_CHAIN_ID
  THEN [networkOk |-> TRUE, status |-> StatusNone]
  ELSE [networkOk |-> FALSE, status |-> StatusWrongNetwork(chainIdBig)]

\* the effect [signer] that starts loadContractState
LoadStarted(s) ==
  IF s = NULL \/ BALANCE_ACCESS_ADDRESS = NULL THEN loadPcs
  ELSE loadPcs \cup {"currentRoot"}

GetSignerResolved ==
  /\ connPc = "getSigner"
  /\ LET prov == [eth |-> connEth]
         s == [eth |-> connEth, address |-> connAddr]
         check == NetworkCheck(connChainIdBig)
     IN  /\ provider' = Some(prov)
         /\ signer' = Some(s)
         /\ account' = Some(connAddr)
         /\ chainId' = Some(connChainIdBig)
         /\ networkOk' = check.networkOk
         /\ status' = check.status
         /\ loadPcs' = LoadStarted(Some(s))
  /\ ConnIdle
  /\ UNCHANGED <<envVars, walletChain, lastTx, contractState,
                 txHash, error, loading, feedVars, subVars>>

GetSignerRejected ==
  /\ connPc = "getSigner"
  /\ ConnectCatch(RpcFailure)
  /\ UNCHANGED <<envVars, walletChain, lastTx, walletState, contractState,
                 status, txHash, loading, feedVars, loadPcs, subVars>>

\* the user changes network in the wallet; the page listens to no wallet event
WalletSwitchChain ==
  /\ walletChain' \in Chains \ {walletChain}
  /\ UNCHANGED <<envVars, lastTx, walletState, contractState,
                 status, txHash, error, loading, feedVars, connVars, loadPcs, subVars>>

(***************************************************************************)
(* loadContractState, started by the effect on signer.  Runs at the same   *)
(* await are one element of loadPcs: they read the same contract.          *)
(***************************************************************************)
LoadCatch(e) == error' = Some(MessageOrString(e))

CurrentRootResolved ==
  /\ "currentRoot" \in loadPcs
  /\ loadPcs' = (loadPcs \ {"currentRoot"}) \cup {"requiredThreshold"}
  /\ UNCHANGED <<envVars, walletChain, lastTx, walletState, contractState,
                 status, txHash, error, loading, feedVars, connVars, subVars>>

CurrentRootRejected ==
  /\ "currentRoot" \in loadPcs
  /\ loadPcs' = loadPcs \ {"currentRoot"}
  /\ LoadCatch(RpcFailure)
  /\ UNCHANGED <<envVars, walletChain, lastTx, walletState, contractState,
                 status, txHash, loading, feedVars, connVars, subVars>>

RequiredThresholdResolved ==
  /\ "requiredThreshold" \in loadPcs
  /\ loadPcs' = loadPcs \ {"requiredThreshold"}
  /\ currentRoot' = Some(contractRoot)
  /\ threshold' = Some(contractThreshold)
  /\ UNCHANGED <<envVars, walletChain, lastTx, walletState,
                 status, txHash, error, loading, feedVars, connVars, subVars>>

RequiredThresholdRejected ==
  /\ "requiredThreshold" \in loadPcs
  /\ loadPcs' = loadPcs \ {"requiredThreshold"}
  /\ LoadCatch(RpcFailure)
  /\ UNCHANGED <<envVars, walletChain, lastTx, walletState, contractState,
                 status, txHash, loading, feedVars, connVars, subVars>>

\* a JS value used as a condition: null and 0n are falsy
Truthy(x) == x # NULL /\ Val(x) # 0

Placeholder == <<"(em dash)">>

\* {value ? value.toString() : "(em dash)"} of the two contract cards
Display(x) == IF Truthy(x) THEN ToDecimal(Val(x)) ELSE Placeholder

DisplayedRoot == Display(currentRoot)

DisplayedThreshold == Display(threshold)

(***************************************************************************)
(* The AccessGranted subscription: the effect on signer keeps one listener *)
(* while signer and BALANCE_ACCESS_ADDRESS are set.                        *)
(***************************************************************************)
Subscribed == signer # NULL /\ BALANCE_ACCESS_ADDRESS # NULL

\* the listener: handler(caller, nullifier, root, event)
handler(ev) ==
  /\ Subscribed
  /\ Len(delivered) < MaxDeliveries
  /\ accessEvents' = PushEvent(accessEvents, FeedEntry(ev.caller, ev.nullifier, ev.root, ev))
  /\ delivered' = Append(delivered, ev)
  /\ UNCHANGED <<envVars, walletChain, lastTx, walletState, contractState,
                 status, txHash, error, loading, connVars, loadPcs, subVars>>

AccessGranted == \E ev \in chainEvents : handler(ev)

(***************************************************************************)
(* handleProveAndConsume.                                                  *)
(***************************************************************************)
\* PreconditionError without the network check
PreconditionErrorNoNetwork(s, prov, netOk, address) ==
  IF s = NULL \/ prov = NULL THEN Some(NewError(<<"Wallet not connected">>))
  ELSE IF address = NULL
    THEN Some(NewError(<<"VITE_BALANCE_ACCESS_ADDRESS is not defined in .env">>))
  ELSE NULL

\* the three checks before the first fetch: NULL, or the Error thrown
PreconditionError(s, prov, netOk, address) ==
  IF s = NULL \/ prov = NULL THEN Some(NewError(<<"Wallet not connected">>))
  ELSE IF ~netOk
    THEN Some(NewError(<<"Wrong network (must be Ethereum mainnet for now).">>))
  ELSE IF address = NULL
    THEN Some(NewError(<<"VITE_BALANCE_ACCESS_ADDRESS is not defined in .env">>))
  ELSE NULL

\* SubmitCatch without setStatus: the status line keeps what it showed
SubmitCatchKeepsStatus(e) ==
  /\ error' = Some(Friendly(e))
  /\ status' = status
  /\ loading' = FALSE
  /\ subPc' = "idle"
  /\ subSigner' = NULL

\* SubmitCatch without the finally block: loading keeps its value
SubmitCatchKeepsLoading(e) ==
  /\ error' = Some(Friendly(e))
  /\ status' = StatusFailed
  /\ loading' = loading
  /\ subPc' = "idle"
  /\ subSigner' = NULL

\* catch and finally
SubmitCatch(e) ==
  /\ error' = Some(Friendly(e))
  /\ status' = StatusFailed
  /\ loading' = FALSE
  /\ subPc' = "idle"
  /\ subSigner' = NULL

\* SubmitEnabled of a button that is disabled without an account only
SubmitEnabledWhileLoading == account # NULL

\* disabled={loading || !account}
SubmitEnabled == ~loading /\ account # NULL

\* the click on the submit button, up to the first await
HandleProveAndConsume ==
  /\ SubmitEnabled
  /\ txHash' = NULL
  /\ LET e == PreconditionError(signer, provider, networkOk, BALANCE_ACCESS_ADDRESS) IN
       IF e # NULL THEN SubmitCatch(Val(e))
       ELSE /\ error' = NULL
            /\ status' = StatusNone
            /\ loading' = TRUE
            /\ subPc' = "fetchProof"
            /\ subSigner' = signer
  /\ UNCHANGED <<envVars, walletChain, lastTx, walletState, contractState,
                 feedVars, connVars, loadPcs>>

FetchProofResolved ==
  /\ subPc = "fetchProof"
  /\ subPc' = "fetchPublic"
  /\ UNCHANGED <<envVars, walletChain, lastTx, walletState, contractState,
                 status, txHash, error, loading, feedVars, connVars, loadPcs, subSigner>>

FetchProofRejected ==
  /\ subPc = "fetchProof"
  /\ SubmitCatch(NetworkDown)
  /\ UNCHANGED <<envVars, walletChain, lastTx, walletState, contractState,
                 txHash, feedVars, connVars, loadPcs>>

\* both responses are in: the ok check
FetchPublicResolved ==
  /\ subPc = "fetchPublic"
  /\ IF proofFile = NULL \/ publicFile = NULL
     THEN SubmitCatch(NewError(<<"Unable to load balance_proof.json / balance_public.json">>))
     ELSE /\ subPc' = "proofJson"
          /\ UNCHANGED <<status, error, loading, subSigner>>
  /\ UNCHANGED <<envVars, walletChain, lastTx, walletState, contractState,
                 txHash, feedVars, connVars, loadPcs>>

FetchPublicRejected ==
  /\ subPc = "fetchPublic"
  /\ SubmitCatch(NetworkDown)
  /\ UNCHANGED <<envVars, walletChain, lastTx, walletState, contractState,
                 txHash, feedVars, connVars, loadPcs>>

ProofJsonResolved ==
  /\ subPc = "proofJson"
  /\ subPc' = "publicJson"
  /\ UNCHANGED <<envVars, walletChain, lastTx, walletState, contractState,
                 status, txHash, error, loading, feedVars, connVars, loadPcs, subSigner>>

ProofJsonRejected ==
  /\ subPc = "proofJson"
  /\ SubmitCatch(JsonSyntaxError)
  /\ UNCHANGED <<envVars, walletChain, lastTx, walletState, contractState,
                 txHash, feedVars, connVars, loadPcs>>

PublicJsonRejected ==
  /\ subPc = "publicJson"
  /\ SubmitCatch(JsonSyntaxError)
  /\ UNCHANGED <<envVars, walletChain, lastTx, walletState, contractState,
                 txHash, feedVars, connVars, loadPcs>>

\* the transaction request the wallet receives: the arguments, and the chain
\* the wallet is on when it is asked
TxRequest(args, chain) ==
  [a |-> args.a, b |-> args.b, c |-> args.c, pubSignals |-> args.pubSignals,
   chainId |-> chain, hash |-> NULL, blockNumber |-> NULL]

\* pub is parsed: the shape check, the calldata, and the call of proveAndConsume
PublicJsonResolved ==
  /\ subPc = "publicJson"
  /\ LET proof == Val(proofFile)
         pub == Val(publicFile)
     IN  IF ~PublicShapeOk(pub)
         THEN /\ SubmitCatch(PublicShapeError(pub))
              /\ UNCHANGED lastTx
         ELSE IF CalldataError(proof, pub) # NULL
         THEN /\ SubmitCatch(Val(CalldataError(proof, pub)))
              /\ UNCHANGED lastTx
         ELSE /\ status' = StatusSending
              /\ lastTx' = Some(TxRequest(Calldata(proof, pub), walletChain))
              /\ subPc' = "proveAndConsume"
              /\ UNCHANGED <<error, loading, subSigner>>
  /\ UNCHANGED <<envVars, walletChain, walletState, contractState,
                 txHash, feedVars, connVars, loadPcs>>

\* AfterSend that forgets setTxHash
AfterSendNoHash(hash) == [txHash |-> NULL, status |-> StatusSent]

\* what the page shows once the transaction is sent
AfterSend(hash) == [txHash |-> Some(hash), status |-> StatusSent]

ProveAndConsumeResolved ==
  /\ subPc = "proveAndConsume"
  /\ \E hash \in TxHashes :
       LET shown == AfterSend(hash) IN
       /\ lastTx' = Some([Val(lastTx) EXCEPT !.hash = Some(hash)])
       /\ txHash' = shown.txHash
       /\ status' = shown.status
  /\ subPc' = "wait"
  /\ UNCHANGED <<envVars, walletChain, walletState, contractState,
                 error, loading, feedVars, connVars, loadPcs, subSigner>>

ProveAndConsumeRejected ==
  /\ subPc = "proveAndConsume"
  /\ \E e \in rejections : SubmitCatch(e)
  /\ UNCHANGED <<envVars, walletChain, lastTx, walletState, contractState,
                 txHash, feedVars, connVars, loadPcs>>

WaitResolved ==
  /\ subPc = "wait"
  /\ \E blockNumber \in BlockNumbers :
       LET receipt == [hash |-> Val(Val(lastTx).hash), blockNumber |-> blockNumber] IN
       /\ lastTx' = Some([Val(lastTx) EXCEPT !.blockNumber = Some(receipt.blockNumber)])
       /\ status' = StatusGranted(receipt.blockNumber)
  /\ loading' = FALSE
  /\ subPc' = "idle"
  /\ subSigner' = NULL
  /\ UNCHANGED <<envVars, walletChain, walletState, contractState,
                 txHash, error, feedVars, connVars, loadPcs>>

WaitRejected ==
  /\ subPc = "wait"
  /\ \E e \in rejections : SubmitCatch(e)
  /\ UNCHANGED <<envVars, walletChain, lastTx, walletState, contractState,
                 txHash, feedVars, connVars, loadPcs>>

(***************************************************************************)
(* Specifications.                                                         *)
(***************************************************************************)
Next ==
  \/ ConnectWallet
  \/ RequestAccountsResolved
  \/ RequestAccountsRejected
  \/ ChainIdResolved
  \/ ChainIdRejected
  \/ GetSignerResolved
  \/ GetSignerRejected
  \/ WalletSwitchChain
  \/ CurrentRootResolved
  \/ CurrentRootRejected
  \/ RequiredThresholdResolved
  \/ RequiredThresholdRejected
  \/ AccessGranted
  \/ HandleProveAndConsume
  \/ FetchProofResolved
  \/ FetchProofRejected
  \/ FetchPublicResolved
  \/ FetchPublicRejected
  \/ ProofJsonResolved
  \/ ProofJsonRejected
  \/ PublicJsonResolved
  \/ PublicJsonRejected
  \/ ProveAndConsumeResolved
  \/ ProveAndConsumeRejected
  \/ WaitResolved
  \/ WaitRejected

\* the deployments the sessions are checked on: the wallet found, the contract
\* address configured, the two static files, the contract's values and the
\* events of the chain
TwoWallets ==
  Some([isMetaMask |-> FALSE,
        providers |-> Some(<<Some([isMetaMask |-> TRUE, providers |-> NULL,
                                   providerMap |-> NULL])>>)])

NullEntry == Some([isMetaMask |-> FALSE, providers |-> Some(<<NULL>>)])

Address == Some(ContractAddress)

Deployments ==
  { Env(MetaMaskOnly, Address, Some(ProofDecimal), Some(PublicGood), 71, 5, {}),
    Env(TwoWallets, Address, Some(ProofHex),
        Some(PublicArray(<<ToHex(73), ToDecimal(74)>>)), 0, 0, {}),
    Env(MetaMaskOnly, NULL, Some(ProofDecimal), Some(PublicGood), 71, 5, {}),
    Env(NULL, Address, Some(ProofDecimal), Some(PublicGood), 71, 5, {}),
    Env(NullEntry, Address, Some(ProofDecimal), Some(PublicGood), 71, 5, {}),
    Env(MetaMaskOnly, Address, NULL, Some(PublicGood), 71, 5, {EventA}),
    Env(MetaMaskOnly, Address, Some(ProofDecimal), NULL, 71, 5, {}),
    Env(MetaMaskOnly, Address, Some(ProofDecimal), Some(PublicArray(<<>>)), 71, 5, {}),
    Env(MetaMaskOnly, Address, Some(ProofDecimal),
        Some(PublicArray(<<ToDecimal(71)>>)), 71, 5, {}),
    Env(MetaMaskOnly, Address, Some(ProofDecimal),
        Some(PublicArray(<<ToDecimal(71), ToDecimal(72), ToDecimal(75)>>)), 71, 5, {}),
    Env(MetaMaskOnly, Address, Some(ProofDecimal), Some(PublicObject), 71, 5, {}),
    Env(MetaMaskOnly, Address, Some(ProofMalformed), Some(PublicGood), 71, 5, {}) }

Init == (\E e \in Deployments : InitEnv(e)) /\ InitApp

\* the whole page
Spec == Init /\ [][Next]_vars

\* an awaited call of handleProveAndConsume resolves or rejects
SubmissionSettles ==
  \/ FetchProofResolved
  \/ FetchProofRejected
  \/ FetchPublicResolved
  \/ FetchPublicRejected
  \/ ProofJsonResolved
  \/ ProofJsonRejected
  \/ PublicJsonResolved
  \/ PublicJsonRejected
  \/ ProveAndConsumeResolved
  \/ ProveAndConsumeRejected
  \/ WaitResolved
  \/ WaitRejected

\* loading is written by handleProveAndConsume alone, which reads the wallet
\* state and the files: the page without loadContractState and the event
\* listener, every awaited call of a submission settling in the end
NextSettling ==
  \/ ConnectWallet
  \/ RequestAccountsResolved
  \/ RequestAccountsRejected
  \/ ChainIdResolved
  \/ ChainIdRejected
  \/ GetSignerResolved
  \/ GetSignerRejected
  \/ WalletSwitchChain
  \/ HandleProveAndConsume
  \/ SubmissionSettles

SpecSettling == Init /\ [][NextSettling]_vars /\ WF_vars(SubmissionSettles)

(***************************************************************************)
(* The event feed.  accessEvents is written by the listener alone and the  *)
(* listener reads nothing but signer, so the feed is checked on the        *)
(* actions that connect the wallet, deliver events and submit proofs, with *)
(* two events on the chain.                                                *)
(***************************************************************************)
FeedDeployment ==
  Env(MetaMaskOnly, Address, Some(ProofDecimal), Some(PublicGood), 71, 5, {EventA, EventB})

InitFeed == InitEnv(FeedDeployment) /\ InitApp

NextFeed ==
  \/ ConnectWallet
  \/ RequestAccountsResolved
  \/ RequestAccountsRejected
  \/ ChainIdResolved
  \/ ChainIdRejected
  \/ GetSignerResolved
  \/ GetSignerRejected
  \/ AccessGranted
  \/ HandleProveAndConsume
  \/ FetchProofResolved
  \/ FetchProofRejected
  \/ FetchPublicResolved
  \/ FetchPublicRejected
  \/ ProofJsonResolved
  \/ ProofJsonRejected
  \/ PublicJsonResolved
  \/ PublicJsonRejected
  \/ ProveAndConsumeResolved
  \/ ProveAndConsumeRejected
  \/ WaitResolved
  \/ WaitRejected

SpecFeed == InitFeed /\ [][NextFeed]_vars

(***************************************************************************)
(* Wallet discovery on every shape of window.ethereum: the click on the    *)
(* connect button applies getEthereumProvider, and the wallet's answer or  *)
(* refusal ends the attempt.                                               *)
(***************************************************************************)
InitDiscovery ==
  /\ \E we \in EthereumShapes :
       InitEnv(Env(we, Address, Some(ProofDecimal), Some(PublicGood), 71, 5, {}))
  /\ InitApp

NextDiscovery ==
  \/ ConnectWallet
  \/ RequestAccountsResolved
  \/ RequestAccountsRejected

SpecDiscovery == InitDiscovery /\ [][NextDiscovery]_vars

(***************************************************************************)
(* The catch block of handleProveAndConsume on every error: the node       *)
(* rejects with one Error whose reason, shortMessage and message are each  *)
(* absent, a plain text, or a text that names the used nullifier.          *)
(***************************************************************************)
ReasonTexts == {<<>>, <<"rejected">>, <<"BalanceAccess: ", NullifierUsed>>}

ShortMessageTexts ==
  {<<>>, <<"user rejected action">>, <<"execution reverted: ", NullifierUsed>>}

MessageTexts == {<<>>, <<"transaction failed">>, <<"call exception: ", NullifierUsed>>}

ErrorShapes ==
  { [name |-> <<"Error">>, reason |-> r, shortMessage |-> sm, message |-> m] :
      r \in ReasonTexts, sm \in ShortMessageTexts, m \in MessageTexts }

InitErrors ==
  /\ \E e \in ErrorShapes :
       InitEnv([Env(MetaMaskOnly, Address, Some(ProofDecimal), Some(PublicGood), 71, 5, {})
                  EXCEPT !.rejections = {e}])
  /\ InitApp

NextErrors ==
  \/ ConnectWallet
  \/ RequestAccountsResolved
  \/ RequestAccountsRejected
  \/ ChainIdResolved
  \/ ChainIdRejected
  \/ GetSignerResolved
  \/ GetSignerRejected
  \/ HandleProveAndConsume
  \/ FetchProofResolved
  \/ FetchProofRejected
  \/ FetchPublicResolved
  \/ FetchPublicRejected
  \/ ProofJsonResolved
  \/ ProofJsonRejected
  \/ PublicJsonResolved
  \/ PublicJsonRejected
  \/ ProveAndConsumeResolved
  \/ ProveAndConsumeRejected
  \/ WaitResolved
  \/ WaitRejected

SpecErrors == InitErrors /\ [][NextErrors]_vars

(***************************************************************************)
(* Properties.                                                             *)
(***************************************************************************)
Min(a, b) == IF a < b THEN a ELSE b

\* what the feed shows of a delivered event
Shown(ev) ==
  [caller |-> ev.caller, nullifier |-> ev.nullifier, root |-> ev.root,
   txHash |-> ev.log.transactionHash, blockNumber |-> ev.log.blockNumber]

\* C1: accessEvents holds exactly the last min(n, 5) of the n events delivered
\* so far, newest first, and so never more than 5 entries
FeedIsLastFive ==
  LET n == Len(delivered)
      k == Min(n, 5)
  IN  /\ Len(accessEvents) = k
      /\ Len(accessEvents) <= 5
      /\ \A i \in 1..k : accessEvents[i] = Shown(delivered[n + 1 - i])

\* C1 witness: more than five deliveries, of both events, reconnections and a
\* submission having happened in between
FeedOverflowed ==
  /\ Len(delivered) > 5
  /\ delivered[1] # delivered[Len(delivered)]
  /\ accessEvents[1] # accessEvents[2]
  /\ lastTx # NULL

SameOnChainEvent(x, y) == x.txHash = y.txHash /\ x.nullifier = y.nullifier

\* C2 as stated: no two entries of the feed are for the same on-chain event
FeedDeduplicated ==
  \A i, j \in 1..Len(accessEvents) :
    i # j => ~SameOnChainEvent(accessEvents[i], accessEvents[j])

\* C2 amended: the feed is not de-duplicated, every delivery adds one entry:
\* an event has at most as many entries in the feed as it had deliveries, so
\* two entries for one event mean that event was delivered more than once
FeedEntriesAreDeliveries ==
  \A ev \in chainEvents :
    Cardinality({i \in 1..Len(accessEvents) : SameOnChainEvent(accessEvents[i], Shown(ev))})
      <= Cardinality({k \in 1..Len(delivered) : delivered[k] = ev})

\* C2 witness: an event delivered twice is twice in the feed
FeedShowsEventTwice ==
  \E i, j \in 1..Len(accessEvents) :
    /\ i # j
    /\ SameOnChainEvent(accessEvents[i], accessEvents[j])
    /\ Cardinality({k \in 1..Len(delivered) :
                      SameOnChainEvent(Shown(delivered[k]), accessEvents[i])}) >= 2

\* the number v is what the string s of a file denotes
Carries(v, s) == s = ToDecimal(v) \/ s = ToHex(v)

ForwardsAC(t, proof, pub) ==
  /\ \A i \in 1..2 : Carries(t.a[i], proof.pi_a[i]) /\ Carries(t.c[i], proof.pi_c[i])
  /\ Len(t.a) = 2 /\ Len(t.c) = 2 /\ Len(t.b) = 2 /\ Len(t.pubSignals) = 2
  /\ \A i \in 1..2 : Carries(t.pubSignals[i], pub.items[i])

\* C3 as stated: every element of pi_a, pi_b and pi_c is passed in the position
\* it has in balance_proof.json, pubSignals in file order
ForwardsVerbatim ==
  lastTx # NULL =>
    LET t == Val(lastTx) proof == Val(proofFile) pub == Val(publicFile) IN
    /\ ForwardsAC(t, proof, pub)
    /\ \A i, j \in 1..2 : Carries(t.b[i][j], proof.pi_b[i][j])

\* C3 amended: pi_a, pi_c and the public signals are passed in file order (the
\* first two elements of pi_a and pi_c), and b is the first two pairs of pi_b
\* with the two coordinates of each pair exchanged
ForwardsWithPairsExchanged ==
  lastTx # NULL =>
    LET t == Val(lastTx) proof == Val(proofFile) pub == Val(publicFile) IN
    /\ ForwardsAC(t, proof, pub)
    /\ \A i, j \in 1..2 : Carries(t.b[i][j], proof.pi_b[i][3 - j])

\* C3 witness: a transaction was requested from the hex-encoded proof
HexProofSubmitted == lastTx # NULL /\ proofFile = Some(ProofHex) /\ Val(lastTx).hash # NULL

\* C4 as stated: whenever proveAndConsume is called the wallet is on the
\* expected chain
CalledOnExpectedChain == lastTx # NULL => Val(lastTx).chainId = EXPECTED_CHAIN_ID

\* C5: networkOk is true exactly when chainId is set and is the expected chain
\* (1 by default), and a connectWallet that succeeds on another chain leaves
\* networkOk false and status at the wrong-network message
NetworkOkMeansExpectedChain ==
  /\ [](/\ EXPECTED_CHAIN_ID = 1
        /\ networkOk <=> (chainId # NULL /\ Val(chainId) = EXPECTED_CHAIN_ID))
  /\ [][(GetSignerResolved /\ connChainIdBig # EXPECTED_CHAIN_ID) =>
          /\ ~networkOk'
          /\ chainId' = Some(connChainIdBig)
          /\ status' = <<"Wrong network: current chainId = ">> \o ToDecimal(connChainIdBig)
                         \o <<", expected = ">> \o ToDecimal(EXPECTED_CHAIN_ID)]_vars

\* C5 witness: connected on Sepolia
ConnectedOnWrongNetwork ==
  /\ chainId = Some(SEPOLIA_CHAIN_ID)
  /\ account # NULL
  /\ ~networkOk
  /\ status = <<"Wrong network: current chainId = ", "1", "1", "1", "5", "5", "1", "1", "1",
                ", expected = ", "1">>

InFlight == subPc # "idle"

\* C6: a submission gets past its first three checks, and so to any fetch or
\* to the call of proveAndConsume, only if signer and provider are set,
\* networkOk is true and the address is defined; otherwise it ends at once,
\* with no fetch and no call, error being the message of the first check that
\* fails (wallet, network, address)
GuardedSubmission ==
  /\ [][HandleProveAndConsume =>
          IF signer = NULL \/ provider = NULL
            THEN ~InFlight' /\ lastTx' = lastTx /\ error' = Some(<<"Wallet not connected">>)
          ELSE IF ~networkOk
            THEN /\ ~InFlight' /\ lastTx' = lastTx
                 /\ error' = Some(<<"Wrong network (must be Ethereum mainnet for now).">>)
          ELSE IF BALANCE_ACCESS_ADDRESS = NULL
            THEN /\ ~InFlight' /\ lastTx' = lastTx
                 /\ error' = Some(<<"VITE_BALANCE_ACCESS_ADDRESS is not defined in .env">>)
          ELSE InFlight' /\ subSigner' = signer /\ error' = NULL]_vars
  /\ [][(~InFlight /\ InFlight') =>
          signer # NULL /\ provider # NULL /\ networkOk /\ BALANCE_ACCESS_ADDRESS # NULL]_vars
  /\ [][lastTx' # lastTx => (InFlight /\ subSigner # NULL)]_vars

\* C6 witness: a submission refused for the network although the address is
\* not defined either
RefusedForNetwork ==
  /\ error = Some(<<"Wrong network (must be Ethereum mainnet for now).">>)
  /\ status = StatusFailed
  /\ BALANCE_ACCESS_ADDRESS = NULL
  /\ ~InFlight /\ ~loading /\ lastTx = NULL

\* C7 as stated: a loaded root or threshold is displayed as its decimal string,
\* whatever its value, and the placeholder only stands for no value loaded
DisplaysLoadedValues ==
  /\ currentRoot # NULL => DisplayedRoot = ToDecimal(Val(currentRoot))
  /\ threshold # NULL => DisplayedThreshold = ToDecimal(Val(threshold))
  /\ DisplayedRoot = Placeholder => currentRoot = NULL
  /\ DisplayedThreshold = Placeholder => threshold = NULL

\* C8: a submission writes status in the order '' (start), 'Sending
\* transaction...' (the call), 'Transaction sent, waiting for confirmation...'
\* (the call resolved) and 'Access granted! Block #N' (the wait resolved), one
\* stage at a time; txHash is the hash of the sent transaction from before the
\* wait begins, and N is the block number of that transaction's receipt
StatusSequence ==
  /\ [][(~InFlight /\ InFlight') => status' = <<>>]_vars
  /\ [][subPc' # subPc =>
          /\ subPc' = "proveAndConsume" =>
               subPc = "publicJson" /\ status' = <<"Sending transaction...">>
          /\ subPc' = "publicJson" => subPc = "proofJson" /\ status' = status
          /\ subPc' = "proofJson" => subPc = "fetchPublic" /\ status' = status
          /\ subPc' = "fetchPublic" => subPc = "fetchProof" /\ status' = status
          /\ subPc' = "fetchProof" => subPc = "idle"
          /\ subPc' = "wait" =>
               /\ subPc = "proveAndConsume"
               /\ status' = <<"Transaction sent, waiting for confirmation...">>
               /\ txHash' # NULL /\ txHash' = Val(lastTx').hash
          /\ (subPc' = "idle" /\ status' # StatusFailed) =>
               /\ subPc = "wait"
               /\ txHash' = txHash
               /\ Val(lastTx').blockNumber # NULL
               /\ status' = <<"Access granted! Block #">>
                              \o ToDecimal(Val(Val(lastTx').blockNumber))]_vars
  /\ [](subPc = "wait" => (txHash # NULL /\ txHash = Val(lastTx).hash))

\* C8 witness: a submission confirmed in block 10
SubmissionConfirmed ==
  /\ status = <<"Access granted! Block #", "1", "0">>
  /\ txHash = Some("0x7a")
  /\ Val(lastTx).blockNumber = Some(10)
  /\ ~loading

FilesUsable ==
  /\ proofFile # NULL
  /\ publicFile # NULL
  /\ Val(publicFile).isArray
  /\ Len(Val(publicFile).items) = 2

\* C9: when a file does not load or balance_public.json is not an array of
\* exactly 2 values, no transaction is ever sent, status never is 'Sending
\* transaction...', and a submission that got to the files ends with error set
\* and status 'Proof / transaction failed.'
BadFilesSendNothing ==
  /\ [](~FilesUsable =>
          /\ lastTx = NULL
          /\ txHash = NULL
          /\ status # <<"Sending transaction...">>
          /\ subPc \notin {"proveAndConsume", "wait"})
  /\ [][(~FilesUsable /\ InFlight /\ ~InFlight') =>
          /\ error' # NULL
          /\ status' = <<"Proof / transaction failed.">>
          /\ ~loading']_vars
  /\ [][((proofFile = NULL \/ publicFile = NULL) /\ FetchPublicResolved) => ~InFlight']_vars
  /\ [][(~FilesUsable /\ PublicJsonResolved) => ~InFlight']_vars

\* C9 witness: a submission stopped by a balance_public.json of three values
StoppedByThreeValues ==
  /\ publicFile # NULL /\ Val(publicFile).isArray /\ Len(Val(publicFile).items) = 3
  /\ error = Some(<<"balance_public.json must contain 2 values [root, nullifierHash], got ",
                    "3">>)
  /\ status = StatusFailed
  /\ ~InFlight

\* what getEthereumProvider is to return for window.ethereum = we
ReturnsPreferred(we, kind, path) ==
  IF we = NULL THEN kind = "null"
  ELSE LET eth == Val(we) IN
       /\ kind = "provider"
       /\ path \in AllCandidates(eth)
       /\ IF \E p \in AllCandidates(eth) : ObjectAt(eth, p).isMetaMask
          THEN ObjectAt(eth, path).isMetaMask
          ELSE path = EthPath

\* C10 as stated: whatever the shape of window.ethereum (null entries
\* included), connectWallet gets from getEthereumProvider null when there is
\* no window.ethereum, and otherwise a candidate marked isMetaMask when any
\* candidate is, window.ethereum itself when none is
PrefersMetaMask ==
  [][ConnectWallet =>
       IF connPc' = "eth_requestAccounts"
       THEN ReturnsPreferred(windowEthereum, "provider", connEth')
       ELSE error' = NULL /\ ReturnsPreferred(windowEthereum, "null", EthPath)]_vars

\* e names the used nullifier in its reason, shortMessage, message or string form
MentionsNullifier(e) ==
  \/ Includes(e.reason, NullifierUsed)
  \/ Includes(e.shortMessage, NullifierUsed)
  \/ Includes(e.message, NullifierUsed)
  \/ Includes(StringOf(e), NullifierUsed)

FirstNonEmpty(e) ==
  OrElse(e.reason, OrElse(e.shortMessage, OrElse(e.message, StringOf(e))))

PassAlreadyUsed ==
  <<"This ZK pass has already been used. Each proof can only be consumed once.">>

\* C11: when proveAndConsume or tx.wait rejects with an error that names the
\* used nullifier in its reason, shortMessage, message or string form, the
\* error shown is the pass-already-used sentence; for any other error it is the
\* first non-empty of reason, shortMessage, message, String(e)
ShowsPassAlreadyUsed ==
  [][(ProveAndConsumeRejected \/ WaitRejected)
       => \E e \in rejections :
            error' = Some(IF MentionsNullifier(e) THEN PassAlreadyUsed
                          ELSE FirstNonEmpty(e))]_vars

\* the steps that end a submission in the catch block before proveAndConsume
\* has answered, and the one that ends it while it waits for the receipt
FailsBeforeSent ==
  \/ HandleProveAndConsume /\ ~InFlight'
  \/ FetchProofRejected
  \/ FetchPublicResolved /\ ~InFlight'
  \/ FetchPublicRejected
  \/ ProofJsonRejected
  \/ PublicJsonResolved /\ ~InFlight'
  \/ PublicJsonRejected
  \/ ProveAndConsumeRejected

FailsWaiting == WaitRejected

\* C12: a submission that fails at any step ends with error set, status
\* 'Proof / transaction failed.' and loading false; txHash is null when it
\* failed before the transaction was sent, and the hash of the sent
\* transaction when it failed waiting for the confirmation
FailedSubmissionState ==
  /\ [][(FailsBeforeSent \/ FailsWaiting) =>
          /\ error' # NULL
          /\ status' = <<"Proof / transaction failed.">>
          /\ loading' = FALSE
          /\ ~InFlight']_vars
  /\ [][FailsBeforeSent => txHash' = NULL]_vars
  /\ [][FailsWaiting =>
          /\ lastTx # NULL /\ Val(lastTx).hash # NULL
          /\ txHash' = Val(lastTx).hash]_vars
  /\ [][(InFlight /\ ~InFlight' /\ ~WaitResolved) =>
          (FailsBeforeSent \/ FailsWaiting)]_vars

\* a submission has failed waiting for the confirmation of a sent transaction
FailedAfterSent ==
  /\ ~InFlight
  /\ ~loading
  /\ error # NULL
  /\ status = <<"Proof / transaction failed.">>
  /\ txHash # NULL
  /\ lastTx # NULL /\ txHash = Val(lastTx).hash /\ Val(lastTx).blockNumber = NULL

\* C13: loading is true exactly while a submission is in flight, and when
\* every awaited call settles, every started submission reaches loading = false
LoadingWhileInFlight ==
  /\ [](loading <=> InFlight)
  /\ [][(HandleProveAndConsume /\ InFlight') => loading']_vars
  /\ (loading ~> ~loading)

\* a submission is under way and the page shows it as loading
SubmissionLoading == InFlight /\ loading /\ subPc = "wait"

\* how far a submission has got
Rank(pc) ==
  CASE pc = "idle" -> 0
    [] pc = "fetchProof" -> 1
    [] pc = "fetchPublic" -> 2
    [] pc = "proofJson" -> 3
    [] pc = "publicJson" -> 4
    [] pc = "proveAndConsume" -> 5
    [] pc = "wait" -> 6

\* C14: at most one submission is in flight: the submit button is disabled
\* while a submission is in flight, a press is never taken then, and a submission calls proveAndConsume at most
\* once (it only moves forward, and the call is its one step from the parsed
\* files to the pending transaction)
OneSubmissionInFlight ==
  /\ [](InFlight => ~SubmitEnabled)
  /\ [][HandleProveAndConsume => ~InFlight]_vars
  /\ [][(InFlight /\ InFlight') => Rank(subPc') \in {Rank(subPc), Rank(subPc) + 1}]_vars
  /\ [][(lastTx' # lastTx /\ Val(lastTx').hash = NULL) =>
          (Rank(subPc) = 4 /\ Rank(subPc') = 5)]_vars

\* the transaction is pending in the wallet and the button is disabled
DisabledWhileSending ==
  /\ subPc = "proveAndConsume"
  /\ account # NULL
  /\ ~SubmitEnabled
  /\ lastTx # NULL /\ Val(lastTx).hash = NULL

\* the steps that end a connectWallet without a connection: no provider
\* found, getEthereumProvider throwing, a request refused or failing, no
\* account returned, getSigner throwing
ConnectFails ==
  \/ ConnectWallet /\ connPc' = "idle"
  \/ RequestAccountsResolved /\ connPc' = "idle"
  \/ RequestAccountsRejected
  \/ ChainIdRejected
  \/ GetSignerRejected

\* C15: a connectWallet that fails leaves account, provider, signer, chainId
\* and networkOk as they were before the attempt: of the state cells its
\* last step changes only status and error, and no step of an attempt but
\* the one that ends it successfully writes the wallet state
FailedConnectKeepsWallet ==
  /\ [][ConnectFails =>
          UNCHANGED <<walletState, contractState, txHash, loading, accessEvents>>]_vars
  /\ [][(walletState' # walletState) => GetSignerResolved]_vars

\* a connected page on which a later connectWallet got no account
ReconnectFailed ==
  /\ connPc = "idle"
  /\ account # NULL /\ signer # NULL /\ provider # NULL /\ chainId # NULL
  /\ error = Some(<<"No account returned by wallet">>)

====
